---- MODULE Spec2Model ----
(***************************************************************************)
(* PinnacleSort (src/src/main.rs): the scan / select / commit pipeline of  *)
(* FileCleanerApp, over a small file system.                               *)
(*                                                                         *)
(* Paths and names are strings, handled character by character the way the *)
(* Rust string and Path functions handle them.  Directory paths given to   *)
(* the scanner are absolute and normalised ("/a/b"), so a path string      *)
(* names a file-system object directly.                                    *)
(***************************************************************************)
EXTENDS Integers, Sequences, FiniteSets, TLC

VARIABLES
    time_limit_days,       \* FileCleanerApp.time_limit_days
    downloads_enabled,     \* FileCleanerApp.downloads_enabled
    documents_enabled,     \* FileCleanerApp.documents_enabled
    desktop_enabled,       \* FileCleanerApp.desktop_enabled
    custom_directories,    \* FileCleanerApp.custom_directories
    smart_filter_enabled,  \* FileCleanerApp.smart_filter_enabled
    scan_results,          \* FileCleanerApp.scan_results
    is_scanning,           \* FileCleanerApp.is_scanning
    status_message,        \* FileCleanerApp.status_message, as a record
    exists,                \* file system: the files that exist
    locked,                \* file system: files whose removal is refused
    now                    \* the system clock, in seconds

vars ==
    <<time_limit_days, downloads_enabled, documents_enabled, desktop_enabled,
      custom_directories, smart_filter_enabled, scan_results, is_scanning,
      status_message, exists, locked, now>>

config_vars ==
    <<time_limit_days, downloads_enabled, documents_enabled, desktop_enabled,
      custom_directories, smart_filter_enabled>>

fs_vars ==
    <<exists, locked>>

(***************************************************************************)
(* Bounds of the model.                                                    *)
(***************************************************************************)
\* the slider offers 1..=365 days; the model offers 1..MaxDays
MaxDays ==
    2
\* the clock advances by at most MaxTick seconds after the first scan time
MaxTick ==
    1
\* seconds that may pass between the two clock reads of one file's test
MaxSkew ==
    1

(***************************************************************************)
(* Strings: std::str and std::path, character by character.                *)
(***************************************************************************)
Char(s, i) ==
    SubSeq(s, i, i)

UpperChars ==
    "ABCDEFGHIJKLMNOPQRSTUVWXYZ"

LowerChars ==
    "abcdefghijklmnopqrstuvwxyz"

\* the characters of the model's names in byte order (String's Ord)
ByteOrder ==
    "./0123456789ABCDEFGHIJKLMNOPQRSTUVWXYZ_abcdefghijklmnopqrstuvwxyz"

\* position of the one-character string c in s, 0 when absent
RECURSIVE IndexFrom(_, _, _)
IndexFrom(c, s, i) ==
    IF i > Len(s) THEN 0
    ELSE IF Char(s, i) = c THEN i
    ELSE IndexFrom(c, s, i + 1)

IndexIn(c, s) ==
    IndexFrom(c, s, 1)

char_to_lowercase(c) ==
    LET u == IndexIn(c, UpperChars)
    IN  IF u = 0 THEN c ELSE Char(LowerChars, u)

RECURSIVE to_lowercase(_)
to_lowercase(s) ==
    IF s = "" THEN ""
    ELSE char_to_lowercase(Char(s, 1)) \o to_lowercase(SubSeq(s, 2, Len(s)))

starts_with(s, prefix) ==
    /\ Len(prefix) <= Len(s)
    /\ SubSeq(s, 1, Len(prefix)) = prefix

ends_with(s, suffix) ==
    /\ Len(suffix) <= Len(s)
    /\ SubSeq(s, Len(s) - Len(suffix) + 1, Len(s)) = suffix

contains(s, pattern) ==
    \E i \in 1..(Len(s) - Len(pattern) + 1) :
        SubSeq(s, i, i + Len(pattern) - 1) = pattern

\* s.split('/').filter(|s| !s.is_empty()).collect()
RECURSIVE split_from(_, _, _, _)
split_from(s, i, cur, acc) ==
    IF i > Len(s)
    THEN IF cur = "" THEN acc ELSE Append(acc, cur)
    ELSE IF Char(s, i) = "/"
         THEN split_from(s, i + 1, "", IF cur = "" THEN acc ELSE Append(acc, cur))
         ELSE split_from(s, i + 1, cur \o Char(s, i), acc)

split_nonempty(s) ==
    split_from(s, 1, "", <<>>)

\* parts.join("/")
RECURSIVE join(_)
join(parts) ==
    IF parts = <<>> THEN ""
    ELSE IF Len(parts) = 1 THEN parts[1]
    ELSE parts[1] \o "/" \o join(Tail(parts))

\* index of the last '/' of s at or before i, 0 when there is none
RECURSIVE last_slash(_, _)
last_slash(s, i) ==
    IF i = 0 THEN 0
    ELSE IF Char(s, i) = "/" THEN i
    ELSE last_slash(s, i - 1)

\* s without its trailing '/' characters, the root "/" kept
RECURSIVE strip_trailing(_)
strip_trailing(s) ==
    IF Len(s) > 1 /\ Char(s, Len(s)) = "/"
    THEN strip_trailing(SubSeq(s, 1, Len(s) - 1))
    ELSE s

\* Path::parent().and_then(to_str).unwrap_or(""): "" also when there is none
path_parent(p) ==
    LET q == strip_trailing(p)
        k == last_slash(q, Len(q))
    IN  IF q = "" \/ q = "/" THEN ""
        ELSE IF k = 0 THEN ""
        ELSE IF k = 1 THEN "/"
        ELSE strip_trailing(SubSeq(q, 1, k - 1))

\* Path::file_name(): the last component
path_file_name(p) ==
    LET q == strip_trailing(p)
        k == last_slash(q, Len(q))
    IN  IF q = "/" THEN "" ELSE SubSeq(q, k + 1, Len(q))

\* index of the last '.' of s at or before i, 0 when there is none
RECURSIVE last_dot(_, _)
last_dot(s, i) ==
    IF i = 0 THEN 0
    ELSE IF Char(s, i) = "." THEN i
    ELSE last_dot(s, i - 1)

\* Path::file_stem(): the file name up to its last '.', the whole name when
\* it has none or only a leading one
path_file_stem(p) ==
    LET n == path_file_name(p)
        k == last_dot(n, Len(n))
    IN  IF k <= 1 THEN n ELSE SubSeq(n, 1, k - 1)

\* DirEntry::path(): the directory path joined with the entry's name
path_join(dir, name) ==
    IF ends_with(dir, "/") THEN dir \o name ELSE dir \o "/" \o name

\* String's Ord: byte-wise lexicographic
RECURSIVE str_less(_, _)
str_less(a, b) ==
    IF b = "" THEN FALSE
    ELSE IF a = "" THEN TRUE
    ELSE LET ca == IndexIn(Char(a, 1), ByteOrder)
             cb == IndexIn(Char(b, 1), ByteOrder)
         IN  IF ca # cb THEN ca < cb
             ELSE str_less(SubSeq(a, 2, Len(a)), SubSeq(b, 2, Len(b)))

(***************************************************************************)
(* The file system the program runs on.                                    *)
(***************************************************************************)
\* whoami::username()
UserName ==
    "u"

\* 60 * 60 * 24
DAY ==
    86400

\* the clock when the session starts
Now0 ==
    10 * DAY

\* the directories, all of them readable but Unreadable
Dirs ==
    { "/", "/Users", "/Users/u", "/Users/u/Downloads", "/Users/u/Downloads/.hid",
      "/Users/u/Documents", "/srv", "/srv/data", "/srv/data/sub" }

\* directories whose listing is refused (permission denied), though the
\* directories inside them can be opened by path
Unreadable ==
    { "/srv" }

\* the names in each directory, in the order the platform lists them
Listing(d) ==
    CASE d = "/" -> <<"Users", "rebuild.md", "srv">>
      [] d = "/Users" -> <<"u">>
      [] d = "/Users/u" -> <<"Downloads", "notes.txt", "Documents">>
      [] d = "/Users/u/Downloads" -> <<"app.exe", ".hid", "App.DLL", "app.ini">>
      [] d = "/Users/u/Downloads/.hid" -> <<"x.txt">>
      [] d = "/Users/u/Documents" -> <<"edge.txt">>
      [] d = "/srv" -> <<"data", "old.txt">>
      [] d = "/srv/data" -> <<"sub", "a.txt", ".secret">>
      [] d = "/srv/data/sub" -> <<"cache.tmp", "nometa.txt">>
      [] OTHER -> <<>>

\* every file of the file system at the start
AllFiles ==
    { path_join(d, Listing(d)[i]) : <<d, i>> \in
        { <<d, i>> \in Dirs \X (1..4) : i <= Len(Listing(d)) } } \ Dirs

\* files whose metadata cannot be read
NoMetadata ==
    { "/srv/data/sub/nometa.txt" }

\* last access time of each file, in seconds
AccessTime(f) ==
    CASE f = "/Users/u/Documents/edge.txt" -> Now0 - DAY
      [] f = "/srv/data/a.txt" -> Now0 - 2 * DAY + 1
      [] f = "/Users/u/notes.txt" -> Now0 - 2 * DAY + 1
      [] f = "/rebuild.md" -> Now0 - 40 * DAY
      [] OTHER -> Now0 - 3 * DAY - 5

\* files whose removal the platform may refuse
Lockable ==
    { "/Users/u/Downloads/App.DLL" }

\* custom directories the user may type in
CustomChoices ==
    { "/", "/srv/data", "/Users/u/Downloads/.hid", "/nowhere" }

\* paths find_associated_files may be asked about: every file of the file
\* system, and executables named independently of any scan
ExeProbes ==
    AllFiles \cup { "/Users/u/Downloads/APP.EXE", "/Users/u/Downloads/ap.exe",
                    "/Users/u/Documents/app.exe", "/srv/data/a.exe",
                    "/srv/data/sub/c.Exe" }

\* a function value evaluated once, over its whole domain
tabulated(f) ==
    f @@ <<>>

\* every path and name the file system and the configuration can produce
KnownPaths ==
    AllFiles \cup Dirs \cup CustomChoices \cup ExeProbes \cup {""}

KnownNames ==
    { Listing(d)[i] : <<d, i>> \in { <<d, i>> \in Dirs \X (1..4) : i <= Len(Listing(d)) } }

\* the string functions tabulated over the known paths; the operators
\* below read the table and fall back on the function itself
ParentTable ==
    tabulated([p \in KnownPaths |-> path_parent(p)])

PartsTable ==
    tabulated([p \in KnownPaths |-> split_nonempty(p)])

LowerTable ==
    tabulated([p \in KnownPaths \cup KnownNames |-> to_lowercase(p)])

LessTable ==
    tabulated([pq \in KnownPaths \X KnownPaths |-> str_less(pq[1], pq[2])])

parent(p) ==
    IF p \in KnownPaths THEN ParentTable[p] ELSE path_parent(p)

parts_of(p) ==
    IF p \in KnownPaths THEN PartsTable[p] ELSE split_nonempty(p)

lower(p) ==
    IF p \in KnownPaths \cup KnownNames THEN LowerTable[p] ELSE to_lowercase(p)

less(a, b) ==
    IF a \in KnownPaths /\ b \in KnownPaths THEN LessTable[<<a, b>>] ELSE str_less(a, b)

RECURSIVE reverse(_)
reverse(s) ==
    IF s = <<>> THEN <<>> ELSE Append(reverse(Tail(s)), Head(s))

\* path.is_dir()
is_dir(path) ==
    path \in Dirs

\* std::fs::read_dir(path): the names of the entries that exist, in listing
\* order or its reverse; "err" when the path is no readable directory
read_dir(path, ex, rev) ==
    IF path \notin Dirs \/ path \in Unreadable THEN "err"
    ELSE LET present(n) == path_join(path, n) \in Dirs \/ path_join(path, n) \in ex
             names == SelectSeq(Listing(path), present)
         IN  IF rev THEN reverse(names) ELSE names

(***************************************************************************)
(* Classifier                                                              *)
(***************************************************************************)
binary_extensions ==
    << ".dll", ".so", ".dylib", ".bin", ".o", ".a",
       ".lib", ".sys", ".drv", ".class", ".pyc", ".pyo" >>

system_patterns ==
    << ".cache", ".tmp", ".temp", ".log", ".bak", ".swp", ".swo",
       ".lock", ".pid", ".dat", ".db", ".sqlite", ".idx" >>

build_patterns ==
    << "node_modules", "target", "build", "dist", ".git", ".svn" >>

\* the three pattern loops of should_exclude_file over file_lower
matches_patterns(file_lower) ==
    \/ \E i \in DOMAIN binary_extensions : ends_with(file_lower, binary_extensions[i])
    \/ \E i \in DOMAIN system_patterns : contains(file_lower, system_patterns[i])
    \/ \E i \in DOMAIN build_patterns : contains(file_lower, build_patterns[i])

\* the pattern rule on the lower-cased name and on the name as it is
PatternTable ==
    tabulated([n \in KnownNames \cup { to_lowercase(m) : m \in KnownNames } |->
                  matches_patterns(n)])

patterns_match(name) ==
    IF name \in DOMAIN PatternTable THEN PatternTable[name] ELSE matches_patterns(name)

\* a slip: the patterns are matched against the name as it is spelt
should_exclude_file_as_spelt(file_name) ==
    IF ~smart_filter_enabled THEN FALSE ELSE patterns_match(file_name)

should_exclude_file(file_name) ==
    IF ~smart_filter_enabled THEN FALSE ELSE patterns_match(lower(file_name))

\* a slip: the boundary counts as stale
recently_accessed_after(accessed, clock, time_limit) ==
    accessed > clock - time_limit

\* accessed >= SystemTime::now() - time_limit
recently_accessed(accessed, clock, time_limit) ==
    accessed >= clock - time_limit

\* a slip: the duration is measured from now to the access time
days_since_reversed(accessed, clock) ==
    (IF accessed >= clock THEN accessed - clock ELSE 0) \div DAY

\* now.duration_since(accessed).unwrap_or_default().as_secs() / (60 * 60 * 24)
days_since(accessed, clock) ==
    (IF clock >= accessed THEN clock - accessed ELSE 0) \div DAY

(***************************************************************************)
(* Scanner                                                                 *)
(***************************************************************************)
ScanResult(path, name, days) ==
    [file_path |-> path, file_name |-> name, should_delete |-> TRUE,
     days_since_access |-> days]

\* a slip: no entry is skipped for its name
skip_nothing(file_name_str) ==
    FALSE

\* does the loop of scan_directory_recursive skip this entry name outright
skip_hidden(file_name_str) ==
    starts_with(file_name_str, ".")

\* env: [ex: the existing files, rev: listing order, clock: the clock at the
\* staleness test, skew: seconds until the clock is read again]
RECURSIVE scan_directory_recursive(_, _, _, _), scan_entries(_, _, _, _, _)
scan_directory_recursive(results, directory_path, time_limit, env) ==
    LET entries == read_dir(directory_path, env.ex, env.rev)
    IN  IF entries = "err" THEN results
        ELSE scan_entries(results, directory_path, entries, time_limit, env)

scan_entries(results, directory_path, entries, time_limit, env) ==
    IF entries = <<>> THEN results
    ELSE LET file_name_str == Head(entries)
             path == path_join(directory_path, file_name_str)
             rest == Tail(entries)
         IN  IF skip_hidden(file_name_str)
             THEN scan_entries(results, directory_path, rest, time_limit, env)
             ELSE IF is_dir(path)
             THEN scan_entries(
                      scan_directory_recursive(results, path, time_limit, env),
                      directory_path, rest, time_limit, env)
             ELSE IF should_exclude_file(file_name_str)
             THEN scan_entries(results, directory_path, rest, time_limit, env)
             ELSE IF path \in NoMetadata
             THEN scan_entries(results, directory_path, rest, time_limit, env)
             ELSE IF recently_accessed(AccessTime(path), env.clock, time_limit)
             THEN scan_entries(results, directory_path, rest, time_limit, env)
             ELSE scan_entries(
                      Append(results,
                             ScanResult(path, file_name_str,
                                        days_since(AccessTime(path), env.clock + env.skew))),
                      directory_path, rest, time_limit, env)

\* format!("/Users/{}/", user), not on Windows
working_directory ==
    "/Users/" \o UserName \o "/"

\* the list of directories scan_files walks
directories ==
    (IF downloads_enabled THEN <<working_directory \o "Downloads">> ELSE <<>>)
    \o (IF documents_enabled THEN <<working_directory \o "Documents">> ELSE <<>>)
    \o (IF desktop_enabled THEN <<working_directory \o "Desktop">> ELSE <<>>)
    \o custom_directories

\* a slip: the first directory that cannot be read ends the scan
RECURSIVE scan_each_until_error(_, _, _, _)
scan_each_until_error(results, dirs, time_limit, env) ==
    IF dirs = <<>> THEN results
    ELSE IF read_dir(Head(dirs), env.ex, env.rev) = "err" THEN results
    ELSE scan_each_until_error(
             scan_directory_recursive(results, Head(dirs), time_limit, env),
             Tail(dirs), time_limit, env)

RECURSIVE scan_each(_, _, _, _)
scan_each(results, dirs, time_limit, env) ==
    IF dirs = <<>> THEN results
    ELSE scan_each(scan_directory_recursive(results, Head(dirs), time_limit, env),
                   Tail(dirs), time_limit, env)

StatusMessage(kind, found, deleted, associated, failed) ==
    [kind |-> kind, found |-> found, deleted_count |-> deleted,
     associated_deleted |-> associated, failed_count |-> failed]

\* a slip: the records of the session before are kept
keep(results) ==
    results

\* self.scan_results.clear() at the start of scan_files
clear(results) ==
    <<>>

\* the "Scan for Old Files" button: scan_files()
ScanFiles ==
    /\ ~is_scanning
    /\ \E rev \in BOOLEAN, skew \in 0..MaxSkew :
          scan_results' =
              scan_each(clear(scan_results), directories, DAY * time_limit_days,
                        [ex |-> exists, rev |-> rev, clock |-> now, skew |-> skew])
    /\ status_message' = StatusMessage("scan_complete", Len(scan_results'), 0, 0, 0)
    /\ is_scanning' = FALSE
    /\ UNCHANGED <<config_vars, fs_vars, now>>

(***************************************************************************)
(* Aggregator: the directory tree over the flat collection                 *)
(***************************************************************************)
\* map.entry(k).or_insert_with(Vec::new).push(v)
entry_push(map, k, v) ==
    IF k \in DOMAIN map THEN [map EXCEPT ![k] = Append(@, v)]
    ELSE map @@ (k :> <<v>>)

EmptyMap ==
    [k \in {} |-> <<>>]

\* the directory a record is filed under
dir_of(result) ==
    parent(result.file_path)

\* "/" + parts[0..n].join("/")
prefix_path(parts, n) ==
    "/" \o join(SubSeq(parts, 1, n))

\* the loop over 0..parts.len() that registers each ancestor -> child edge
RECURSIVE add_parent_paths(_, _, _)
add_parent_paths(tree, parts, i) ==
    IF i > Len(parts) THEN tree
    ELSE add_parent_paths(
             IF i > 1
             THEN entry_push(tree, prefix_path(parts, i - 1), prefix_path(parts, i))
             ELSE tree,
             parts, i + 1)

\* Vec::sort(), by insertion
RECURSIVE insert_sorted(_, _)
insert_sorted(sorted, x) ==
    IF sorted = <<>> THEN <<x>>
    ELSE IF less(x, Head(sorted)) THEN <<x>> \o sorted
    ELSE <<Head(sorted)>> \o insert_sorted(Tail(sorted), x)

RECURSIVE sort(_)
sort(v) ==
    IF v = <<>> THEN <<>> ELSE insert_sorted(sort(Tail(v)), Head(v))

\* Vec::dedup(): consecutive repetitions removed
RECURSIVE dedup(_)
dedup(v) ==
    IF Len(v) <= 1 THEN v
    ELSE IF v[1] = v[2] THEN dedup(Tail(v))
    ELSE <<v[1]>> \o dedup(Tail(v))

\* a slip: the list is not sorted before dedup()
dedup_unsorted(children) ==
    dedup(children)

\* children.sort(); children.dedup();
sort_dedup(children) ==
    dedup(sort(children))

\* the first loop of render_directory_tree, from record idx on
RECURSIVE build_maps(_, _, _, _)
build_maps(results, idx, tree, file_map) ==
    IF idx > Len(results) THEN [tree |-> tree, file_map |-> file_map]
    ELSE LET dir == dir_of(results[idx])
         IN  build_maps(results, idx + 1,
                        IF dir # "" THEN add_parent_paths(tree, parts_of(dir), 1)
                        ELSE tree,
                        entry_push(file_map, dir, idx))

\* "Deduplicate children": every child list sorted and deduplicated
dedup_children(tree) ==
    [k \in DOMAIN tree |-> sort_dedup(tree[k])]

\* format!("/Users/{}", user)
user_home ==
    "/Users/" \o UserName

\* the filter_map closure over file_map.keys(): <<root>>, or <<>> for None
root_of(path) ==
    IF starts_with(path, user_home)
    THEN LET parts == parts_of(path)
         IN  IF Len(parts) >= 3
             THEN << "/" \o parts[1] \o "/" \o parts[2] \o "/" \o parts[3] >>
             ELSE <<>>
    ELSE <<path>>

\* the keys of a map in some order
RECURSIVE keys_seq(_)
keys_seq(keys) ==
    IF keys = {} THEN <<>>
    ELSE LET k == CHOOSE x \in keys : TRUE
         IN  <<k>> \o keys_seq(keys \ {k})

RECURSIVE flat_map(_)
flat_map(paths) ==
    IF paths = <<>> THEN <<>> ELSE root_of(Head(paths)) \o flat_map(Tail(paths))

\* roots: collected, sorted, deduplicated
build_roots(file_map) ==
    sort_dedup(flat_map(keys_seq(DOMAIN file_map)))

\* the number of indices whose record is selected
RECURSIVE count_selected(_, _)
count_selected(results, indices) ==
    IF indices = <<>> THEN 0
    ELSE (IF results[Head(indices)].should_delete THEN 1 ELSE 0)
         + count_selected(results, Tail(indices))

\* <<total, selected>> of a node
RECURSIVE count_files_recursive(_, _, _, _), count_children(_, _, _, _)
count_files_recursive(results, path, tree, file_map) ==
    LET own == IF path \in DOMAIN file_map
               THEN << Len(file_map[path]), count_selected(results, file_map[path]) >>
               ELSE << 0, 0 >>
        sub == IF path \in DOMAIN tree
               THEN count_children(results, tree[path], tree, file_map)
               ELSE << 0, 0 >>
    IN  << own[1] + sub[1], own[2] + sub[2] >>

count_children(results, children, tree, file_map) ==
    IF children = <<>> THEN << 0, 0 >>
    ELSE LET c == count_files_recursive(results, Head(children), tree, file_map)
             r == count_children(results, Tail(children), tree, file_map)
         IN  << c[1] + r[1], c[2] + r[2] >>

\* the records with the flag of every index in indices set to select
RECURSIVE set_flags(_, _, _)
set_flags(results, indices, select) ==
    IF indices = <<>> THEN results
    ELSE set_flags([results EXCEPT ![Head(indices)].should_delete = select],
                   Tail(indices), select)

\* a slip: the sub-directories are not visited
select_all_shallow(results, path, tree, file_map, select) ==
    IF path \in DOMAIN file_map
    THEN set_flags(results, file_map[path], select)
    ELSE results

\* the collection after select_all_recursive(path, tree, file_map, select)
RECURSIVE select_all_recursive(_, _, _, _, _), select_children(_, _, _, _, _)
select_all_recursive(results, path, tree, file_map, select) ==
    LET own == IF path \in DOMAIN file_map
               THEN set_flags(results, file_map[path], select)
               ELSE results
    IN  IF path \in DOMAIN tree
        THEN select_children(own, tree[path], tree, file_map, select)
        ELSE own

select_children(results, children, tree, file_map, select) ==
    IF children = <<>> THEN results
    ELSE select_children(
             select_all_recursive(results, Head(children), tree, file_map, select),
             Tail(children), tree, file_map, select)

\* the nodes render_tree_node draws, every header open: a node is drawn when
\* its total is positive, and its children are visited inside it
RECURSIVE rendered_from(_, _, _, _)
rendered_from(results, paths, tree, file_map) ==
    IF paths = <<>> THEN {}
    ELSE LET path == Head(paths)
             total == count_files_recursive(results, path, tree, file_map)[1]
             below == IF total > 0 /\ path \in DOMAIN tree
                      THEN rendered_from(results, tree[path], tree, file_map)
                      ELSE {}
         IN  (IF total > 0 THEN {path} ELSE {}) \cup below
             \cup rendered_from(results, Tail(paths), tree, file_map)

\* the three locals render_directory_tree builds over the collection:
\* tree (parent -> children), file_map (directory -> indices) and roots
render_directory_tree(results) ==
    LET maps == build_maps(results, 1, EmptyMap, EmptyMap)
    IN  [tree |-> dedup_children(maps.tree), file_map |-> maps.file_map,
         roots |-> build_roots(maps.file_map)]

rendered_nodes(results, index) ==
    rendered_from(results, index.roots, index.tree, index.file_map)

\* the indices whose checkbox is drawn
rendered_indices(results, index) ==
    LET drawn == rendered_nodes(results, index) \cap DOMAIN index.file_map
    IN  UNION { { index.file_map[path][k] : k \in DOMAIN index.file_map[path] } :
                path \in drawn }

\* a file row's checkbox
ToggleCheckbox ==
    /\ LET index == render_directory_tree(scan_results)
       IN  \E idx \in rendered_indices(scan_results, index) :
              scan_results' = [scan_results EXCEPT ![idx].should_delete = ~@]
    /\ UNCHANGED <<config_vars, is_scanning, status_message, fs_vars, now>>

\* a folder's "Select All" / "Deselect All" buttons
SelectAllRecursive ==
    /\ LET index == render_directory_tree(scan_results)
       IN  \E path \in rendered_nodes(scan_results, index), select \in BOOLEAN :
              scan_results' =
                  select_all_recursive(scan_results, path, index.tree,
                                       index.file_map, select)
    /\ UNCHANGED <<config_vars, is_scanning, status_message, fs_vars, now>>

\* the header's "Select All" and "Deselect" buttons
SelectAllButton ==
    /\ scan_results # <<>>
    /\ \E select \in BOOLEAN :
          scan_results' = [i \in DOMAIN scan_results |->
                              [scan_results[i] EXCEPT !.should_delete = select]]
    /\ UNCHANGED <<config_vars, is_scanning, status_message, fs_vars, now>>

(***************************************************************************)
(* Commit                                                                  *)
(***************************************************************************)
supporting_extensions ==
    << ".dll", ".dat", ".ini", ".cfg", ".config" >>

\* <<stem>>, or <<>> for None
get_exe_base_name(path) ==
    IF ends_with(lower(path), ".exe") THEN <<path_file_stem(path)>> ELSE <<>>

\* a slip: the names are compared as they are spelt
is_supporting_as_spelt(file_name_str, base_name) ==
    /\ starts_with(file_name_str, base_name)
    /\ \E i \in DOMAIN supporting_extensions :
          ends_with(file_name_str, supporting_extensions[i])

\* is the entry named file_name_str a support file of the stem base_name
is_supporting(file_name_str, base_name) ==
    LET file_lower == lower(file_name_str)
        base_lower == lower(base_name)
    IN  /\ starts_with(file_lower, base_lower)
        /\ \E i \in DOMAIN supporting_extensions :
              ends_with(file_lower, supporting_extensions[i])

RECURSIVE associated_in(_, _, _, _)
associated_in(entries, dir, exe_path, base_name) ==
    IF entries = <<>> THEN <<>>
    ELSE LET path == path_join(dir, Head(entries))
             rest == associated_in(Tail(entries), dir, exe_path, base_name)
         IN  IF path = exe_path THEN rest
             ELSE IF is_supporting(Head(entries), base_name) THEN <<path>> \o rest
             ELSE rest

\* the support files of exe_path that exist in ex
find_associated_files(exe_path, ex) ==
    LET base == get_exe_base_name(exe_path)
        dir == parent(exe_path)
        entries == read_dir(dir, ex, FALSE)
    IN  IF base = <<>> THEN <<>>
        ELSE IF strip_trailing(exe_path) = "/" THEN <<>>
        ELSE IF entries = "err" THEN <<>>
        ELSE associated_in(entries, dir, exe_path, base[1])

\* fs::remove_file(path).is_ok()
remove_ok(path, ex) ==
    path \in ex /\ path \notin locked

\* st: the file system and the three counters of delete_files, and
\* associated_failed, the number of support files whose removal returned Err
\* (the code keeps no such counter: the result is dropped)
RECURSIVE remove_associated(_, _)
remove_associated(files, st) ==
    IF files = <<>> THEN st
    ELSE remove_associated(
             Tail(files),
             IF remove_ok(Head(files), st.ex)
             THEN [st EXCEPT !.ex = @ \ {Head(files)}, !.associated_deleted = @ + 1]
             ELSE [st EXCEPT !.associated_failed = @ + 1])

\* a slip: a failed removal of the primary file is dropped like a support file's
remove_primary_uncounted(file_path, st) ==
    IF remove_ok(file_path, st.ex)
    THEN [st EXCEPT !.ex = @ \ {file_path}, !.deleted_count = @ + 1]
    ELSE st

\* the primary file of one record
remove_primary(file_path, st) ==
    IF remove_ok(file_path, st.ex)
    THEN [st EXCEPT !.ex = @ \ {file_path}, !.deleted_count = @ + 1]
    ELSE [st EXCEPT !.failed_count = @ + 1]

\* one iteration of the loop of delete_files
delete_one(result, st) ==
    IF ~result.should_delete THEN st
    ELSE remove_primary(
             result.file_path,
             IF ends_with(lower(result.file_path), ".exe")
             THEN remove_associated(find_associated_files(result.file_path, st.ex), st)
             ELSE st)

RECURSIVE delete_from(_, _, _)
delete_from(results, i, st) ==
    IF i > Len(results) THEN st
    ELSE delete_from(results, i + 1, delete_one(results[i], st))

\* the state of the loop of delete_files when it ends
delete_loop(results, ex) ==
    delete_from(results, 1,
                [ex |-> ex, deleted_count |-> 0, failed_count |-> 0,
                 associated_deleted |-> 0, associated_failed |-> 0])

selected_count(results) ==
    Cardinality({ i \in DOMAIN results : results[i].should_delete })

\* a slip: only the records that were processed are dropped
drop_selected(results) ==
    SelectSeq(results, LAMBDA r : ~r.should_delete)

\* what delete_files leaves in scan_results
cleared(results) ==
    <<>>

\* the "Delete n" button: delete_files()
DeleteFiles ==
    /\ scan_results # <<>>
    /\ selected_count(scan_results) > 0
    /\ LET st == delete_loop(scan_results, exists)
       IN  /\ exists' = st.ex
           /\ status_message' =
                  StatusMessage("deleted", 0, st.deleted_count,
                                st.associated_deleted, st.failed_count)
    /\ scan_results' = cleared(scan_results)
    /\ UNCHANGED <<config_vars, is_scanning, locked, now>>

\* the settings the session is run with: the three check boxes and the
\* custom directories added before the first scan
Setting(downloads, documents, desktop, custom) ==
    [downloads |-> downloads, documents |-> documents, desktop |-> desktop,
     custom |-> custom]

Settings ==
    { Setting(TRUE, TRUE, TRUE, <<>>),
      Setting(TRUE, FALSE, FALSE, <<"/srv/data">>),
      Setting(FALSE, FALSE, FALSE, <<"/">>),
      Setting(TRUE, FALSE, FALSE, <<"/Users/u/Downloads/.hid">>),
      Setting(FALSE, TRUE, FALSE, <<"/nowhere">>),
      Setting(FALSE, FALSE, TRUE, <<"/srv/data", "/srv/data/sub">>) }

Init ==
    /\ time_limit_days \in 1..MaxDays
    /\ \E s \in Settings :
          /\ downloads_enabled = s.downloads
          /\ documents_enabled = s.documents
          /\ desktop_enabled = s.desktop
          /\ custom_directories = s.custom
    /\ smart_filter_enabled \in BOOLEAN
    /\ scan_results = <<>>
    /\ is_scanning = FALSE
    /\ status_message = StatusMessage("none", 0, 0, 0, 0)
    /\ exists = AllFiles
    /\ locked \in SUBSET Lockable
    /\ now = Now0

\* the system clock advances
Tick ==
    /\ now < Now0 + MaxTick
    /\ now' = now + 1
    /\ UNCHANGED <<config_vars, scan_results, is_scanning, status_message, fs_vars>>

Next ==
    \/ Tick
    \/ ScanFiles
    \/ ToggleCheckbox
    \/ SelectAllRecursive
    \/ SelectAllButton
    \/ DeleteFiles

Spec ==
    Init /\ [][Next]_vars

(***************************************************************************)
(* Properties                                                              *)
(***************************************************************************)
InResults(results, f) ==
    \E i \in DOMAIN results : results[i].file_path = f

Selected(results) ==
    { i \in DOMAIN results : results[i].should_delete }

\* f lies below the directory root, no name on the way from root down to f
\* (f's own included) starts with '.', and every directory on the way is
\* readable
ReachableFrom(f, root) ==
    LET rp == parts_of(root)
        fp == parts_of(f)
    IN  /\ root \in Dirs
        /\ Len(fp) > Len(rp)
        /\ SubSeq(fp, 1, Len(rp)) = rp
        /\ \A k \in (Len(rp) + 1)..Len(fp) : ~starts_with(fp[k], ".")
        /\ \A k \in Len(rp)..(Len(fp) - 1) : prefix_path(fp, k) \notin Unreadable

UnderConfigured(f) ==
    \E k \in DOMAIN directories : ReachableFrom(f, directories[k])

\* a file the traversal reaches whose metadata can be read
Readable(f) ==
    /\ f \in exists
    /\ f \notin NoMetadata
    /\ UnderConfigured(f)

\* the name rule of the smart filter, as the specification words it
NameRule(name) ==
    LET file_lower == to_lowercase(name)
    IN  \/ \E i \in DOMAIN binary_extensions : ends_with(file_lower, binary_extensions[i])
        \/ \E i \in DOMAIN system_patterns : contains(file_lower, system_patterns[i])
        \/ \E i \in DOMAIN build_patterns : contains(file_lower, build_patterns[i])

NameRuleTable ==
    tabulated([n \in KnownNames |-> NameRule(n)])

NameExcluded(name) ==
    IF name \in KnownNames THEN NameRuleTable[name] ELSE NameRule(name)

\* the smart filter is enabled and its name rule excludes f
Excluded(f) ==
    smart_filter_enabled /\ NameExcluded(path_file_name(f))

Stale(f) ==
    AccessTime(f) < now - DAY * time_limit_days

AtBoundary(f) ==
    AccessTime(f) = now - DAY * time_limit_days

\* a step of scan_files (the conjuncts that are cheap to evaluate first)
ScanStep ==
    /\ status_message'.kind = "scan_complete"
    /\ now' = now
    /\ Len(scan_results') = status_message'.found
    /\ \A i \in DOMAIN scan_results' : scan_results'[i].should_delete
    /\ ScanFiles

\* a step of delete_files
DeleteStep ==
    /\ status_message'.kind = "deleted"
    /\ DeleteFiles

\* C1: commit consumes only selected candidates: a file whose record is not
\* selected when delete_files is invoked still exists when it returns.
C1_UnselectedSurvive ==
    [][DeleteFiles =>
          \A i \in DOMAIN scan_results :
              (~scan_results[i].should_delete /\ scan_results[i].file_path \in exists)
                  => scan_results[i].file_path \in exists']_vars

\* C2: staleness is strict: a scan reports a non-hidden, non-excluded file
\* it reaches if and only if its access time is before now - threshold; a
\* file exactly at now - threshold is not reported.
C2_StrictStaleness ==
    [][ScanStep =>
          \A f \in AllFiles :
              (Readable(f) /\ ~Excluded(f))
                  => (InResults(scan_results', f) <=> Stale(f))]_vars

\* a scan has just left out a file exactly at the boundary and reported an
\* older one
C2_Witness ==
    /\ status_message.kind = "scan_complete"
    /\ \E f \in AllFiles :
          /\ Readable(f) /\ ~Excluded(f)
          /\ AtBoundary(f)
          /\ ~InResults(scan_results, f)
    /\ \E g \in AllFiles : Stale(g) /\ InResults(scan_results, g)

HasHiddenPart(path) ==
    \E k \in DOMAIN parts_of(path) : starts_with(parts_of(path)[k], ".")

C4_SmartFilter ==
    [][ScanStep =>
          /\ smart_filter_enabled =>
                \A i \in DOMAIN scan_results' :
                    ~NameExcluded(scan_results'[i].file_name)
          /\ ~smart_filter_enabled =>
                /\ \A n \in KnownNames : ~should_exclude_file(n)
                /\ \A f \in AllFiles :
                      (Readable(f) /\ Stale(f)) => InResults(scan_results', f)]_vars

\* a scan with the filter enabled has left out a stale, readable file whose
\* upper-case name ends with a binary extension
C4_Witness ==
    /\ status_message.kind = "scan_complete"
    /\ smart_filter_enabled
    /\ scan_results # <<>>
    /\ \E f \in AllFiles :
          /\ Readable(f) /\ Stale(f)
          /\ path_file_name(f) # to_lowercase(path_file_name(f))
          /\ NameExcluded(path_file_name(f))
          /\ ~InResults(scan_results, f)

\* every path the tree names: keys and children of tree, keys of file_map,
\* and the roots
Nodes(index) ==
    DOMAIN index.tree \cup DOMAIN index.file_map
    \cup UNION { { index.tree[k][j] : j \in DOMAIN index.tree[k] } : k \in DOMAIN index.tree }
    \cup { index.roots[j] : j \in DOMAIN index.roots }

\* the directory dir is node or lies below it
DirUnder(dir, node) ==
    LET np == parts_of(node)
        dp == parts_of(dir)
    IN  /\ Len(np) <= Len(dp)
        /\ SubSeq(dp, 1, Len(np)) = np

RecordsUnder(results, node) ==
    { i \in DOMAIN results : DirUnder(dir_of(results[i]), node) }

\* node and its descendants: the nodes reached from it through tree
RECURSIVE NodesUnder(_, _)
NodesUnder(tree, node) ==
    {node} \cup
    (IF node \in DOMAIN tree
     THEN UNION { NodesUnder(tree, tree[node][j]) : j \in DOMAIN tree[node] }
     ELSE {})

\* C5: for every node, count_files_recursive returns as total the number of
\* records whose file lies under the node's directory and as selected the
\* number of those that are selected.
C5_CountsAllBelow ==
    LET index == render_directory_tree(scan_results)
    IN  \A node \in Nodes(index) :
            count_files_recursive(scan_results, node, index.tree, index.file_map)
                = << Cardinality(RecordsUnder(scan_results, node)),
                     Cardinality(RecordsUnder(scan_results, node) \cap Selected(scan_results)) >>

\* C6: after select_all_recursive(node, true) the count of the node and of
\* each node below it has selected = total, and after
\* select_all_recursive(node, false) it has selected = 0.
C6_SelectThenCount ==
    LET index == render_directory_tree(scan_results)
    IN  \A node \in Nodes(index) :
            LET on == select_all_recursive(scan_results, node, index.tree,
                                           index.file_map, TRUE)
                off == select_all_recursive(scan_results, node, index.tree,
                                            index.file_map, FALSE)
            IN  \A n \in NodesUnder(index.tree, node) :
                    LET c1 == count_files_recursive(on, n, index.tree, index.file_map)
                        c0 == count_files_recursive(off, n, index.tree, index.file_map)
                    IN  c1[2] = c1[1] /\ c0[2] = 0

\* a folder with a sub-folder, both holding records, of which some but not
\* all are selected: the state either button of the folder then changes
C6_Witness ==
    LET index == render_directory_tree(scan_results)
    IN  \E node \in rendered_nodes(scan_results, index) :
            /\ node \in DOMAIN index.tree /\ node \in DOMAIN index.file_map
            /\ \E n \in NodesUnder(index.tree, node) \ {node} : n \in DOMAIN index.file_map
            /\ LET c == count_files_recursive(scan_results, node, index.tree,
                                              index.file_map)
               IN  0 < c[2] /\ c[2] < c[1]

\* C7: after every commit the collection is empty, however many removals
\* failed.
C7_ClearedAfterCommit ==
    [][DeleteStep => scan_results' = <<>>]_vars

\* a commit in which every removal failed has left the collection empty
C7_Witness ==
    /\ status_message.kind = "deleted"
    /\ status_message.deleted_count = 0
    /\ status_message.failed_count > 0
    /\ scan_results = <<>>

\* C8: every selected record's primary file is attempted once, whatever
\* failed before: deleted_count + failed_count is the number of selected
\* records.
C8_EveryPrimaryCounted ==
    [][DeleteStep =>
          status_message'.deleted_count + status_message'.failed_count
              = Cardinality(Selected(scan_results))]_vars

\* a commit has counted a failure and a deletion
C8_Witness ==
    /\ status_message.kind = "deleted"
    /\ status_message.failed_count > 0
    /\ status_message.deleted_count > 0

\* C9: every support file of a selected .exe is attempted, each removal
\* that succeeds is counted in associated_deleted and each that fails is
\* counted in failed_count.
C9_AssociatedFailuresCounted ==
    [][DeleteStep =>
          LET st == delete_loop(scan_results, exists)
          IN  /\ status_message'.associated_deleted = st.associated_deleted
              /\ status_message'.failed_count
                    = (Cardinality(Selected(scan_results)) - st.deleted_count)
                      + st.associated_failed]_vars

\* the selected .exe records of the collection
SelectedExes(results) ==
    { i \in Selected(results) : ends_with(to_lowercase(results[i].file_path), ".exe") }

SupportFiles(exe_path, ex) ==
    LET found == find_associated_files(exe_path, ex)
    IN  { found[j] : j \in DOMAIN found }

\* C10: committing a selected .exe whose k support files are all removable
\* removes exactly the executable and those k files, and reports k
\* associated deletions, one primary deletion for the executable and no
\* failure from them, whether or not the support files are records of the
\* collection themselves.  Stated for a commit whose selected records are
\* the executable and, possibly, support files of it.
C10_ExeWithSupportFiles ==
    [][DeleteStep =>
          \A e \in SelectedExes(scan_results) :
              LET exe == scan_results[e].file_path
                  support == SupportFiles(exe, exists)
                  own == { i \in Selected(scan_results) : scan_results[i].file_path = exe }
              IN  ( /\ exe \in exists
                    /\ ({exe} \cup support) \cap locked = {}
                    /\ own = {e}
                    /\ \A i \in Selected(scan_results) :
                          scan_results[i].file_path \in {exe} \cup support )
                  => /\ exists' = exists \ ({exe} \cup support)
                     /\ status_message'.associated_deleted = Cardinality(support)
                     /\ status_message'.failed_count = 0]_vars

\* the names of the entries of the directory dir that exist
EntryNames(dir, ex) ==
    { Listing(dir)[k] : k \in { k \in DOMAIN Listing(dir) :
          path_join(dir, Listing(dir)[k]) \in Dirs \cup ex } }

\* is the entry named n a support file of exe_path, as the specification
\* words it
SupportName(exe_path, n) ==
    /\ path_join(path_parent(exe_path), n) # exe_path
    /\ starts_with(to_lowercase(n), to_lowercase(path_file_stem(exe_path)))
    /\ \E ext \in { ".dll", ".dat", ".ini", ".cfg", ".config" } :
          ends_with(to_lowercase(n), ext)

SupportNameTable ==
    tabulated([pn \in ExeProbes \X KnownNames |-> SupportName(pn[1], pn[2])])

EndsInExeTable ==
    tabulated([q \in ExeProbes |-> ends_with(to_lowercase(q), ".exe")])

\* the support files of exe_path among the entries that exist
SupportEntries(exe_path, ex) ==
    LET dir == parent(exe_path)
    IN  { path_join(dir, n) : n \in
            { n \in EntryNames(dir, ex) : SupportNameTable[<<exe_path, n>>] } }

\* C11: find_associated_files(p) is empty when p does not end in ".exe"
\* (in any case); otherwise it lists, each once, exactly the entries of p's
\* directory other than p whose lower-cased name starts with p's lower-cased
\* stem and ends with a support extension, and nothing of another directory.
C11_AssociatedFiles ==
    \A p \in ExeProbes :
        LET found == find_associated_files(p, exists)
        IN  IF ~EndsInExeTable[p] THEN found = <<>>
            ELSE /\ \A i, j \in DOMAIN found : i # j => found[i] # found[j]
                 /\ { found[i] : i \in DOMAIN found } = SupportEntries(p, exists)
                 /\ \A i \in DOMAIN found : parent(found[i]) = parent(p)

\* a commit has removed both support files of an executable, one of them
\* spelt in upper case, and other files of the directory are still there
C11_Witness ==
    /\ status_message.kind = "deleted"
    /\ status_message.associated_deleted = 2
    /\ "/Users/u/Downloads/App.DLL" \notin exists
    /\ "/Users/u/Downloads/app.ini" \notin exists
    /\ SupportEntries("/Users/u/Downloads/app.exe", AllFiles)
          = { "/Users/u/Downloads/App.DLL", "/Users/u/Downloads/app.ini" }

\* C12: file_path is a unique key: the list of directories traversed has no
\* repetition and no two records of the collection have the same file_path.
C12_UniquePaths ==
    /\ \A i, j \in DOMAIN directories : i # j => directories[i] # directories[j]
    /\ \A i, j \in DOMAIN scan_results :
          i # j => scan_results[i].file_path # scan_results[j].file_path

\* C13: every directory that contains a candidate, directly or below it, is
\* a node that is rendered, and no rendered node has a recursive total of 0.
C13_EveryDirectoryRendered ==
    LET index == render_directory_tree(scan_results)
        drawn == rendered_nodes(scan_results, index)
    IN  /\ \A d \in Dirs : RecordsUnder(scan_results, d) # {} => d \in drawn
        /\ \A n \in drawn :
              count_files_recursive(scan_results, n, index.tree, index.file_map)[1] > 0

\* the collection with the records at i and i + 1 exchanged
SwapAdjacent(results, i) ==
    [k \in DOMAIN results |->
        IF k = i THEN results[i + 1] ELSE IF k = i + 1 THEN results[i] ELSE results[k]]

\* other orderings of the same records: the reverse, and each exchange of
\* two neighbours
Reorderings(results) ==
    { reverse(results) } \cup { SwapAdjacent(results, i) : i \in 1..(Len(results) - 1) }

\* the shape of the tree built over results: its nodes, its roots in order,
\* each node's child list, and the paths of the records filed under each
\* directory
Shape(results) ==
    LET index == render_directory_tree(results)
    IN  [nodes |-> Nodes(index), roots |-> index.roots, tree |-> index.tree,
         rendered |-> rendered_nodes(results, index),
         filed |-> [d \in DOMAIN index.file_map |->
                      << Len(index.file_map[d]),
                         { results[index.file_map[d][k]].file_path :
                             k \in DOMAIN index.file_map[d] } >>]]

\* the roots when the map hands out its keys in the opposite order
RootsKeysReversed(results) ==
    sort_dedup(flat_map(reverse(keys_seq(
        DOMAIN render_directory_tree(results).file_map))))

StrictlyIncreasing(v) ==
    \A j \in 1..(Len(v) - 1) : less(v[j], v[j + 1])

\* C14: the tree shape depends on the set of records only: every
\* reordering of the records, and the map's keys in another order, give the
\* same nodes, the same roots in the same order and the same child lists,
\* and every child list is in lexicographic order without repetition.
C14_ShapeIgnoresOrder ==
    LET shape == Shape(scan_results)
    IN  /\ \A other \in Reorderings(scan_results) : Shape(other) = shape
        /\ RootsKeysReversed(scan_results) = shape.roots
        /\ \A n \in DOMAIN shape.tree : StrictlyIncreasing(shape.tree[n])

\* a directory whose children were registered out of order and more than
\* once, over records of several directories
C14_Witness ==
    LET raw == build_maps(scan_results, 1, EmptyMap, EmptyMap).tree
        index == render_directory_tree(scan_results)
    IN  \E n \in DOMAIN raw :
            /\ Len(index.tree[n]) >= 2
            /\ Len(raw[n]) > Len(index.tree[n])
            /\ ~StrictlyIncreasing(raw[n])

\* a call of scan_files, whatever it leaves in the collection
ScanCall ==
    /\ status_message'.kind = "scan_complete"
    /\ now' = now
    /\ ScanFiles

\* how many times the traversal of the configured directories meets f
TimesMet(f) ==
    Cardinality({ k \in DOMAIN directories : ReachableFrom(f, directories[k]) })

RecordsOf(results, f) ==
    { i \in DOMAIN results : results[i].file_path = f }

\* C15: a scan resets the session: whatever the collection held before,
\* after the scan it holds exactly the records that scan discovered (one
\* for each time the traversal meets a stale, eligible file that exists)
\* and every record is selected.
C15_ScanResets ==
    [][ScanCall =>
          /\ \A i \in DOMAIN scan_results' :
                /\ scan_results'[i].should_delete
                /\ scan_results'[i].file_path \in exists
          /\ \A f \in AllFiles :
                Cardinality(RecordsOf(scan_results', f))
                    = IF f \in exists /\ f \notin NoMetadata /\ ~Excluded(f) /\ Stale(f)
                      THEN TimesMet(f) ELSE 0]_vars

\* a scan run after a commit removed files has found records, all selected
C15_Witness ==
    /\ status_message.kind = "scan_complete"
    /\ exists # AllFiles
    /\ scan_results # <<>>
    /\ \A i \in DOMAIN scan_results : scan_results[i].should_delete

\* a directory whose listing fails: it is missing or it cannot be read
Failing(d) ==
    d \notin Dirs \/ d \in Unreadable

\* C16: traversal errors are local: a scan always completes and leaves
\* is_scanning false; a file in a directory that cannot be listed and a
\* file without metadata give no record; and every stale eligible file that
\* a configured directory leads to through readable directories is
\* reported, whatever failed elsewhere.
C16_ErrorsAreLocal ==
    [][ScanCall =>
          /\ ~is_scanning'
          /\ \A i \in DOMAIN scan_results' :
                /\ scan_results'[i].file_path \notin NoMetadata
                /\ ~Failing(parent(scan_results'[i].file_path))
          /\ \A f \in exists \ NoMetadata :
                (UnderConfigured(f) /\ ~Excluded(f) /\ Stale(f))
                    => InResults(scan_results', f)]_vars

\* a scan whose first configured directory is missing has reported a file
\* that sits next to a file without metadata
C16_Witness ==
    /\ status_message.kind = "scan_complete"
    /\ ~is_scanning
    /\ directories # <<>> /\ Failing(directories[1])
    /\ \E f \in AllFiles, g \in NoMetadata \cap exists :
          /\ parent(f) = parent(g)
          /\ InResults(scan_results, f)
          /\ ~InResults(scan_results, g)

\* r and q differ in nothing but their selection flags
SameButFlags(r, q) ==
    /\ Len(r) = Len(q)
    /\ \A i \in DOMAIN r :
          /\ r[i].file_path = q[i].file_path
          /\ r[i].file_name = q[i].file_name
          /\ r[i].days_since_access = q[i].days_since_access

\* C17: select_all_recursive(node, v) changes only selection flags: a
\* record whose directory is node or lies below node gets the flag v, every
\* other record keeps its flag, no other field and neither the length nor
\* the order changes, and a second call changes nothing.
C17_SelectFrame ==
    LET index == render_directory_tree(scan_results)
    IN  \A node \in rendered_nodes(scan_results, index), v \in BOOLEAN :
            LET after == select_all_recursive(scan_results, node, index.tree,
                                              index.file_map, v)
            IN  /\ SameButFlags(after, scan_results)
                /\ \A i \in DOMAIN scan_results :
                      after[i].should_delete
                          = IF DirUnder(dir_of(scan_results[i]), node) THEN v
                            ELSE scan_results[i].should_delete
                /\ select_all_recursive(after, node, index.tree, index.file_map, v)
                      = after

\* C18: every record a scan produces has days_since_access equal to the
\* whole days elapsed from the file's access time to the clock as read for
\* the age (never the zero fallback), and at least the threshold in days.
C18_AgeAtLeastThreshold ==
    [][ScanCall =>
          \A i \in DOMAIN scan_results' :
              LET accessed == AccessTime(scan_results'[i].file_path)
                  days == scan_results'[i].days_since_access
              IN  /\ days >= time_limit_days
                  /\ \E skew \in 0..MaxSkew :
                        /\ now + skew > accessed
                        /\ days * DAY <= now + skew - accessed
                        /\ now + skew - accessed < (days + 1) * DAY]_vars

\* a scan has reported a file whose age is exactly the threshold, its
\* elapsed time not a whole number of days
C18_Witness ==
    /\ status_message.kind = "scan_complete"
    /\ \E i \in DOMAIN scan_results :
          /\ scan_results[i].days_since_access = time_limit_days
          /\ (now - AccessTime(scan_results[i].file_path)) % DAY # 0

\* the records render_tree_node shows under the root: those filed under a
\* node reached from it through tree
ShownUnder(index, root) ==
    UNION { { index.file_map[n][k] : k \in DOMAIN index.file_map[n] } :
              n \in NodesUnder(index.tree, root) \cap DOMAIN index.file_map }

\* C19: the roots neither hide nor duplicate: every record is reachable
\* from exactly one root passed to render_tree_node, and the roots'
\* recursive totals add up to the length of the collection.
C19_RootsPartitionRecords ==
    LET index == render_directory_tree(scan_results)
    IN  /\ \A i \in DOMAIN scan_results :
              Cardinality({ k \in DOMAIN index.roots :
                              i \in ShownUnder(index, index.roots[k]) }) = 1
        /\ count_children(scan_results, index.roots, index.tree, index.file_map)[1]
              = Len(scan_results)

====
